---- MODULE Spec2Model ----
(***************************************************************************)
(* A model of the meteor game of main.go: the Game struct, its Update and  *)
(* Reset, the Player, Meteor, Bullet, Timer and Rect types.                *)
(*                                                                         *)
(* Numbers.  Positions are whole pixels.  The tick rate ebiten.TPS() is    *)
(* fixed at TPS = 2, so that the player's turn of Pi/TPS per tick is a     *)
(* quarter turn and Sin and Cos are exact; a rotation is a whole number of *)
(* such turns.  The sprites are assets that are not part of main.go: their *)
(* sizes are chosen here (even, so that the halves are whole).  A meteor's *)
(* random draws (angle, velocity, rotation speed) range over small sets.   *)
(*                                                                         *)
(* Slices.  g.meteors and g.bullets are Go slices: the model keeps the     *)
(* live elements across ticks, and inside the collision loop of Update it  *)
(* keeps the backing array and the length apart, as `range` and `append`   *)
(* do.  A runtime panic of a slice expression ends the program: the model  *)
(* records it in `panicked`, with the state as the panic found it.         *)
(***************************************************************************)
EXTENDS Integers, Sequences, FiniteSets, TLC

\* ------------------------------------------------------------- constants
ScreenWidth == 800
ScreenHeight == 600

\* ebiten.TPS(): the tick rate of the host loop.
TPS == 2

\* time.Second and 5*time.Second, in milliseconds.
ShootCooldownMs == 1000
MeteorSpawnMs == 5000

\* Bullet.Update: 350 pixels per second.  Player.Update: bulletSpawnOffset.
BulletSpeedPerSecond == 350
bulletSpawnOffset == 50

\* Player.Update: speed, math.Pi / TPS = 1.5708 as the nearest float of four
\* bits of mantissa, 1.625, in units of 2^-3.
TurnSpeed == 13

\* Sprite bounds (Dx, Dy) of the embedded images.
PlayerSprite == [Dx |-> 100, Dy |-> 76]
BulletSprite == [Dx |-> 10, Dy |-> 54]
MeteorSprites == << [Dx |-> 100, Dy |-> 84], [Dx |-> 100, Dy |-> 340] >>

\* ---------------------------------------------------------------- bounds
\* Update is called at most MaxTicks times.
MaxTicks == 11
\* Fire is held only while fewer than MaxBullets bullets are live.
MaxBullets == 2
\* A turn key is held only while the rotation stays among these quarter turns
\* (up, right, down).
Rotations == 0 .. 2
\* With no key held, Update is called at most MaxIdleTicks times.
MaxIdleTicks == 22
\* A placed game holds at most MaxPlacedMeteors meteors and MaxPlacedBullets
\* bullets, and Update is called on it at most MaxPlacedTicks times.
MaxPlacedMeteors == 3
MaxPlacedBullets == 4
MaxPlacedTicks == 1
\* A timer by itself gets at most MaxTimerOps calls.
MaxTimerOps == 8
\* A rotation by itself is turned for at most MaxTurnTicks ticks, in floats
\* of FloatBits bits of mantissa.
MaxTurnTicks == 6
FloatBits == 4
\* The coordinates and sizes of the rectangles by themselves.
RectCoords == {-20, 0, 10, 11}
RectSizes == {0, 10}
\* The durations of the timers by themselves, in milliseconds.
TimerDurations == {0, 250, 500, 1000, 1500, 2000}

\* The draws of NewMeteor: angle in quarter turns, velocity in pixels per
\* tick, rotation speed in hundredths of a radian per tick.  The source draws
\* the velocity from [0.25, 1.75) pixels per tick and the host ticks 60 times
\* a second; at TPS ticks a second the same pixels per second are 30 times as
\* many per tick, and 10 and 20 stand for 0.33 and 0.67 of the source.
Angles == 0 .. 3
Velocities == {10, 20}
RotationSpeeds == {1}

Keys == {"A", "D", "Space"}

\* The player's cooldown and the spawn interval, in ticks.
CooldownTicks == (ShootCooldownMs * TPS) \div 1000
SpawnTicks == (MeteorSpawnMs * TPS) \div 1000

\* ------------------------------------------------------------------ math
Abs(x) == IF x < 0 THEN -x ELSE x

\* math.Sin and math.Cos of a whole number of turns of Pi/TPS (quarter turns).
Sin(rot) ==
  CASE rot % 4 = 0 -> 0
    [] rot % 4 = 1 -> 1
    [] rot % 4 = 2 -> 0
    [] rot % 4 = 3 -> -1

Cos(rot) ==
  CASE rot % 4 = 0 -> 1
    [] rot % 4 = 1 -> 0
    [] rot % 4 = 2 -> -1
    [] rot % 4 = 3 -> 0

\* Vector.Normalize, for the axis-parallel vectors the model draws: the
\* magnitude Sqrt(X*X + Y*Y) is then |X| + |Y|.
Normalize(v) ==
  LET mag == Abs(v.X) + Abs(v.Y)
  IN  [X |-> v.X \div mag, Y |-> v.Y \div mag]

\* ----------------------------------------------------------------- Timer
NewTimer(ms) == [currentTicks |-> 0, targetTicks |-> (ms * TPS) \div 1000]

\* An Update that counts on past the target.
TimerUpdateUncapped(t) == [t EXCEPT !.currentTicks = t.currentTicks + 1]

\* An Update that wraps around at the target.
TimerUpdateWraps(t) ==
  IF t.currentTicks < t.targetTicks
    THEN [t EXCEPT !.currentTicks = t.currentTicks + 1]
    ELSE [t EXCEPT !.currentTicks = 0]

TimerUpdate(t) ==
  IF t.currentTicks < t.targetTicks
    THEN [t EXCEPT !.currentTicks = t.currentTicks + 1]
    ELSE t

IsReady(t) == t.currentTicks >= t.targetTicks

\* A Reset that leaves the elapsed ticks as they are.
TimerResetKeepsTicks(t) == t

TimerReset(t) == [t EXCEPT !.currentTicks = 0]

\* ------------------------------------------------------------------ Rect
MaxX(r) == r.X + r.Width
MaxY(r) == r.Y + r.Height

\* An Intersects that is strict on one side, and one that is strict on both.
IntersectsHalfOpen(r, other) ==
  /\ r.X <= MaxX(other)
  /\ other.X < MaxX(r)
  /\ r.Y <= MaxY(other)
  /\ other.Y < MaxY(r)

IntersectsOpen(r, other) ==
  /\ r.X < MaxX(other)
  /\ other.X < MaxX(r)
  /\ r.Y < MaxY(other)
  /\ other.Y < MaxY(r)

Intersects(r, other) ==
  /\ r.X <= MaxX(other)
  /\ other.X <= MaxX(r)
  /\ r.Y <= MaxY(other)
  /\ other.Y <= MaxY(r)

\* The three Collider methods: the sprite's bounds at the position.
Collider(pos, sprite) ==
  [X |-> pos.X, Y |-> pos.Y, Width |-> sprite.Dx, Height |-> sprite.Dy]

MeteorCollider(m) == Collider(m.Position, m.Sprite)
BulletCollider(b) == Collider(b.position, b.sprite)
PlayerCollider(p) == Collider(p.position, p.sprite)

\* ---------------------------------------------------------------- Meteor
\* NewMeteor, with its four random draws as parameters; id stands for the
\* pointer's identity.
NewMeteor(id, angle, velocity, rotationSpeed, sprite) ==
  LET target == [X |-> ScreenWidth \div 2, Y |-> ScreenHeight \div 2]
      r == ScreenWidth \div 2
      pos == [X |-> target.X + Cos(angle) * r, Y |-> target.Y + Sin(angle) * r]
      direction == [X |-> target.X - pos.X, Y |-> target.Y - pos.Y]
      normalizedDirection == Normalize(direction)
      movement == [X |-> normalizedDirection.X * velocity,
                   Y |-> normalizedDirection.Y * velocity]
  IN  [id |-> id, Position |-> pos, Movement |-> movement, Rotation |-> 0,
       rotationSpeed |-> rotationSpeed, Sprite |-> sprite]

MeteorUpdate(m) ==
  [m EXCEPT !.Position = [X |-> m.Position.X + m.Movement.X,
                          Y |-> m.Position.Y + m.Movement.Y],
            !.Rotation = m.Rotation + m.rotationSpeed]

\* ---------------------------------------------------------------- Bullet
NewBullet(id, pos, rot) ==
  LET sprite == BulletSprite
      halfW == sprite.Dx \div 2
      halfH == sprite.Dy \div 2
  IN  [id |-> id, position |-> [X |-> pos.X - halfW, Y |-> pos.Y - halfH],
       rotation |-> rot, sprite |-> sprite]

BulletUpdate(b) ==
  LET speed == BulletSpeedPerSecond \div TPS
  IN  [b EXCEPT !.position = [X |-> b.position.X + Sin(b.rotation) * speed,
                              Y |-> b.position.Y + Cos(b.rotation) * (-speed)]]

\* ---------------------------------------------------------------- Player
NewPlayer ==
  LET sprite == PlayerSprite
      halfW == sprite.Dx \div 2
      halfH == sprite.Dy \div 2
  IN  [position |-> [X |-> ScreenWidth \div 2 - halfW, Y |-> ScreenHeight \div 2 - halfH],
       rotation |-> 0,
       shootCooldown |-> NewTimer(ShootCooldownMs),
       sprite |-> sprite]

\* A Player.Update that fires along the rotation it had before the turn keys.
PlayerUpdateFiresFirst(p, keys, id) ==
  LET rotA == IF "A" \in keys THEN p.rotation - 1 ELSE p.rotation
      rotD == IF "D" \in keys THEN rotA + 1 ELSE rotA
      cool == TimerUpdate(p.shootCooldown)
      fire == IsReady(cool) /\ "Space" \in keys
      halfW == p.sprite.Dx \div 2
      halfH == p.sprite.Dy \div 2
      spawnPos == [X |-> p.position.X + halfW + Sin(p.rotation) * bulletSpawnOffset,
                   Y |-> p.position.Y + halfH + Cos(p.rotation) * (-bulletSpawnOffset)]
  IN  [player |-> [p EXCEPT !.rotation = rotD,
                            !.shootCooldown = IF fire THEN TimerReset(cool) ELSE cool],
       added |-> IF fire THEN << NewBullet(id, spawnPos, p.rotation) >> ELSE << >>]

\* Player.Update under the held keys: the player after it, and the bullets it
\* hands to AddBullet (none or one); id is the identity of a new bullet.
PlayerUpdate(p, keys, id) ==
  LET rotA == IF "A" \in keys THEN p.rotation - 1 ELSE p.rotation
      rotD == IF "D" \in keys THEN rotA + 1 ELSE rotA
      cool == TimerUpdate(p.shootCooldown)
      fire == IsReady(cool) /\ "Space" \in keys
      halfW == p.sprite.Dx \div 2
      halfH == p.sprite.Dy \div 2
      spawnPos == [X |-> p.position.X + halfW + Sin(rotD) * bulletSpawnOffset,
                   Y |-> p.position.Y + halfH + Cos(rotD) * (-bulletSpawnOffset)]
  IN  [player |-> [p EXCEPT !.rotation = rotD,
                            !.shootCooldown = IF fire THEN TimerReset(cool) ELSE cool],
       added |-> IF fire THEN << NewBullet(id, spawnPos, rotD) >> ELSE << >>]

\* ------------------------------------------------------------------ Game
\* Variants of Reset: one that keeps the bullets, one that keeps the meteors,
\* one that also restarts the spawn timer.
ResetKeepsBullets(g) ==
  [g EXCEPT !.player = NewPlayer, !.meteors = << >>, !.score = 0]

ResetKeepsMeteors(g) ==
  [g EXCEPT !.player = NewPlayer, !.bullets = << >>, !.score = 0]

ResetRestartsSpawnTimer(g) ==
  [g EXCEPT !.player = NewPlayer, !.meteors = << >>, !.bullets = << >>, !.score = 0,
            !.meteorSpawnTimer.currentTicks = 0]

\* Game.Reset: a new player; no meteors, no bullets, score 0.  The spawn timer
\* is not assigned.
Reset(g) ==
  [g EXCEPT !.player = NewPlayer, !.meteors = << >>, !.bullets = << >>, !.score = 0]

\* Game.AddBullet
AddBullet(g, b) == [g EXCEPT !.bullets = Append(g.bullets, b)]

\* A removal that copies the last element down instead of shifting.
RemoveAtCopiesLast(arr, len, k) ==
  [n \in 1 .. Len(arr) |-> IF n >= k /\ n < len THEN arr[len] ELSE arr[n]]

\* append(s[:i], s[i+1:]...) on a slice of length len over the array arr, which
\* has room: the elements after index k (counting from 1) move down one place
\* in the array itself, the last place keeps its old element, the length drops.
RemoveAt(arr, len, k) ==
  [n \in 1 .. Len(arr) |-> IF n >= k /\ n < len THEN arr[n + 1] ELSE arr[n]]

\* The state of the collision loop: the arrays behind g.meteors and g.bullets
\* with their current lengths, the score, whether a slice expression has
\* panicked, and the intersections found so far (m, b: the pair the loop
\* variables held; rm, rb: the elements taken out, 0 for none).
\*
\* One turn of the inner loop body for the meteor variable m at index i and
\* the bullet at index j (both counted from 1).
CollideAt(c, i, m, j) ==
  LET b == c.bArr[j]
      hit == [m |-> m.id, b |-> b.id, rm |-> 0, rb |-> 0]
  IN  IF ~Intersects(MeteorCollider(m), BulletCollider(b)) THEN c
      ELSE IF i > c.mLen
        \* g.meteors[i+1:] with i+1 > len(g.meteors)
        THEN [c EXCEPT !.panicked = TRUE, !.hits = Append(c.hits, hit)]
      ELSE LET rm == c.mArr[i].id
               c1 == [c EXCEPT !.mArr = RemoveAt(c.mArr, c.mLen, i),
                               !.mLen = c.mLen - 1]
           IN  IF j > c1.bLen
                 \* g.bullets[j+1:] with j+1 > len(g.bullets)
                 THEN [c1 EXCEPT !.panicked = TRUE,
                                 !.hits = Append(c.hits, [hit EXCEPT !.rm = rm])]
                 ELSE [c1 EXCEPT !.bArr = RemoveAt(c.bArr, c.bLen, j),
                                 !.bLen = c.bLen - 1,
                                 !.score = c.score + 1,
                                 !.hits = Append(c.hits,
                                            [hit EXCEPT !.rm = rm, !.rb = c.bArr[j].id])]

\* for j, b := range g.bullets, from index j on; n is the length the range
\* statement read when the loop began.
RECURSIVE BulletLoop(_, _, _, _, _)
BulletLoop(c, i, m, j, n) ==
  IF j > n \/ c.panicked THEN c
  ELSE BulletLoop(CollideAt(c, i, m, j), i, m, j + 1, n)

\* for i, m := range g.meteors, from index i on; n as above.
RECURSIVE MeteorLoop(_, _, _)
MeteorLoop(c, i, n) ==
  IF i > n \/ c.panicked THEN c
  ELSE MeteorLoop(BulletLoop(c, i, c.mArr[i], 1, c.bLen), i + 1, n)

\* The meteor-bullet step of Game.Update (lines 436-447).
Collide(g) ==
  MeteorLoop([mArr |-> g.meteors, mLen |-> Len(g.meteors),
              bArr |-> g.bullets, bLen |-> Len(g.bullets),
              score |-> g.score, panicked |-> FALSE, hits |-> << >>],
             1, Len(g.meteors))

\* A meteor-player step that stops looking after the first meteor.
PlayerLoopFirstOnly(r, ms, k) ==
  IF k > Len(ms) \/ k > 1 THEN r
  ELSE IF Intersects(MeteorCollider(ms[k]), PlayerCollider(r.g.player))
    THEN [g |-> Reset(r.g), resets |-> r.resets + 1]
    ELSE r

\* The meteor-player step (lines 449-454) over ms, the slice the range
\* statement read: every intersecting meteor calls Reset on the game as it is
\* by then.  resets counts the calls.
RECURSIVE PlayerLoop(_, _, _)
PlayerLoop(r, ms, k) ==
  IF k > Len(ms) THEN r
  ELSE IF Intersects(MeteorCollider(ms[k]), PlayerCollider(r.g.player))
    THEN PlayerLoop([g |-> Reset(r.g), resets |-> r.resets + 1], ms, k + 1)
    ELSE PlayerLoop(r, ms, k + 1)

\* Game.Update, in the order of its statements.  Each step is an operator on
\* the game so far; keys are the held keys, draw holds NewMeteor's random
\* draws, mid and bid are the identities of a new meteor and a new bullet.
\*
\* Lines 409-412: the player's update; its bullet goes through AddBullet.
PlayerStep(g, pu) ==
  IF pu.added = << >>
    THEN [g EXCEPT !.player = pu.player]
    ELSE AddBullet([g EXCEPT !.player = pu.player], pu.added[1])

\* A spawn step that spawns without restarting the timer.
SpawnStepKeepsTimer(g, timer, draw, mid) ==
  IF IsReady(timer)
    THEN [g EXCEPT !.meteorSpawnTimer = timer,
                   !.meteors = Append(g.meteors,
                       NewMeteor(mid, draw.angle, draw.velocity,
                                 draw.rotationSpeed, draw.sprite))]
    ELSE [g EXCEPT !.meteorSpawnTimer = timer]

\* Lines 414-420: the spawn timer and the spawn, given the updated timer.
SpawnStep(g, timer, draw, mid) ==
  IF IsReady(timer)
    THEN [g EXCEPT !.meteorSpawnTimer = TimerReset(timer),
                   !.meteors = Append(g.meteors,
                       NewMeteor(mid, draw.angle, draw.velocity,
                                 draw.rotationSpeed, draw.sprite))]
    ELSE [g EXCEPT !.meteorSpawnTimer = timer]

\* A move step that drops the bullets that have left the screen.
MoveStepDropsOffscreen(g) ==
  [g EXCEPT !.meteors = [k \in 1 .. Len(g.meteors) |-> MeteorUpdate(g.meteors[k])],
            !.bullets = SelectSeq([k \in 1 .. Len(g.bullets) |-> BulletUpdate(g.bullets[k])],
                                  LAMBDA b : /\ b.position.X + b.sprite.Dx >= 0
                                             /\ b.position.X <= ScreenWidth
                                             /\ b.position.Y + b.sprite.Dy >= 0
                                             /\ b.position.Y <= ScreenHeight)]

\* Lines 422-434: every meteor and every bullet moves.
MoveStep(g) ==
  [g EXCEPT !.meteors = [k \in 1 .. Len(g.meteors) |-> MeteorUpdate(g.meteors[k])],
            !.bullets = [k \in 1 .. Len(g.bullets) |-> BulletUpdate(g.bullets[k])]]

\* A collision step whose score increments are lost.
AfterCollideKeepsScore(g, c) ==
  [g EXCEPT !.meteors = SubSeq(c.mArr, 1, c.mLen),
            !.bullets = SubSeq(c.bArr, 1, c.bLen)]

\* The game as the collision loop c leaves it.
AfterCollide(g, c) ==
  [g EXCEPT !.meteors = SubSeq(c.mArr, 1, c.mLen),
            !.bullets = SubSeq(c.bArr, 1, c.bLen),
            !.score = c.score]

\* Lines 449-456, unless the collision loop panicked.
PlayerCollide(g, panic) ==
  IF panic THEN [g |-> g, resets |-> 0]
  ELSE PlayerLoop([g |-> g, resets |-> 0], g.meteors, 1)

\* What a call did: the game after it (g), whether it panicked, the bullets
\* and meteors it added, the collections before (preM, preB) and after
\* (postM, postB) the meteor-bullet step, the intersections that step found,
\* the player after its update (postP), and the number of Reset calls.
Outcome(pu, spawn, g4, c, g5, pl) ==
  [g |-> pl.g, panicked |-> c.panicked,
   added |-> Len(pu.added), spawn |-> spawn,
   preM |-> g4.meteors, preB |-> g4.bullets, hits |-> c.hits,
   postM |-> g5.meteors, postB |-> g5.bullets, postP |-> g5.player,
   resets |-> pl.resets]

Update5(pu, spawn, g4, c, g5) ==
  Outcome(pu, spawn, g4, c, g5, PlayerCollide(g5, c.panicked))

Update4(pu, spawn, g4, c) == Update5(pu, spawn, g4, c, AfterCollide(g4, c))

Update3(pu, spawn, g4) == Update4(pu, spawn, g4, Collide(g4))

\* An Update that moves the meteors and bullets before it spawns.
Update2MovesFirst(g1, pu, timer, draw, mid) ==
  Update3(pu, IsReady(timer), SpawnStep(MoveStep(g1), timer, draw, mid))

Update2(g1, pu, timer, draw, mid) ==
  Update3(pu, IsReady(timer), MoveStep(SpawnStep(g1, timer, draw, mid)))

Update1(g, pu, draw, mid) ==
  Update2(PlayerStep(g, pu), pu, TimerUpdate(g.meteorSpawnTimer), draw, mid)

GameUpdate(g, keys, draw, mid, bid) ==
  Update1(g, PlayerUpdate(g.player, keys, bid), draw, mid)

\* ----------------------------------------------------------------- state
VARIABLES
  player, score, meteorSpawnTimer, meteors, bullets,  \* the Game struct
  panicked,     \* a slice expression panicked: the program has ended
  ticks,        \* calls of Game.Update so far
  spawned,      \* meteors appended since the last Reset (or the start)
  fired,        \* bullets appended since the last Reset (or the start)
  playerTicks,  \* calls of Player.Update on the current player
  shots,        \* bullets the current player has created
  shotAt,       \* playerTicks at its latest bullet, 0 for none
  heldAll,      \* fire was held in every Player.Update of the current player
  idle,         \* no key was held in any tick so far
  last,         \* what the latest call of Game.Update did
  soloTimer,    \* a Timer on its own, with the calls made on it
  rects,        \* two Rects on their own, with Intersects' answers
  turning       \* a rotation on its own, in float64's rounding

\* The variables outside the Game: they change only in the specifications
\* that exercise a Timer or a pair of Rects by themselves.
units == << soloTimer, rects, turning >>

vars == << player, score, meteorSpawnTimer, meteors, bullets, panicked, ticks,
           spawned, fired, playerTicks, shots, shotAt, heldAll, idle, last,
           soloTimer, rects, turning >>

\* The Game struct as a value.
Game ==
  [player |-> player, score |-> score, meteorSpawnTimer |-> meteorSpawnTimer,
   meteors |-> meteors, bullets |-> bullets]

\* The record of a call, before any call: the outcome's fields, and of the
\* state before the call the score, the spawn timer, the numbers of meteors
\* and bullets, the player's Update count (age), its bullets so far (shots),
\* the Update of its latest bullet (shotAt0), whether its cooldown was ready
\* once updated, and whether fire was held in all its Updates.
NoTick ==
  [keys |-> {}, added |-> 0, spawn |-> FALSE, preM |-> << >>, preB |-> << >>,
   hits |-> << >>, postM |-> << >>, postB |-> << >>, postP |-> NewPlayer,
   resets |-> 0, score0 |-> 0, timer0 |-> NewTimer(MeteorSpawnMs),
   nM0 |-> 0, nB0 |-> 0, age |-> 0, shots |-> 0, shotAt0 |-> 0,
   ready |-> FALSE, heldAll |-> TRUE]

\* The ghost variables of a game that holds nM meteors and nB bullets and has
\* not been updated yet.
InitGhost(nM, nB) ==
  /\ panicked = FALSE
  /\ ticks = 0
  /\ spawned = nM
  /\ fired = nB
  /\ playerTicks = 0
  /\ shots = 0
  /\ shotAt = 0
  /\ heldAll = TRUE
  /\ idle = TRUE
  /\ last = NoTick

\* A timer nothing has been called on: t is the timer, calls the Update calls
\* since its creation or its latest Reset, resets the Reset calls, ops all
\* calls.
FreshTimer(ms) == [t |-> NewTimer(ms), calls |-> 0, resets |-> 0, ops |-> 0]

\* Two rectangles Intersects has not been asked about: ab is a.Intersects(b),
\* ba is b.Intersects(a).
FreshRects(a, b) == [a |-> a, b |-> b, asked |-> FALSE, ab |-> FALSE, ba |-> FALSE]

NoRect == [X |-> 0, Y |-> 0, Width |-> 0, Height |-> 0]

\* A player's rotation before any tick: rotation is p.rotation, before is
\* what it was when the latest tick began, keys are that tick's held keys.
FreshTurning == [rotation |-> 0, before |-> 0, keys |-> {}, ticks |-> 0]

\* The game's specifications leave the units as they start.
UnitsIdle ==
  /\ soloTimer = FreshTimer(0)
  /\ rects = FreshRects(NoRect, NoRect)
  /\ turning = FreshTurning

\* main: the spawn timer, no meteors, no bullets, score 0, a new player.
MainGame ==
  /\ player = NewPlayer
  /\ score = 0
  /\ meteorSpawnTimer = NewTimer(MeteorSpawnMs)
  /\ meteors = << >>
  /\ bullets = << >>
  /\ InitGhost(0, 0)

Init == MainGame /\ UnitsIdle

\* The draws NewMeteor can make.
Draws ==
  [angle : Angles, velocity : Velocities, rotationSpeed : RotationSpeeds,
   sprite : {MeteorSprites[k] : k \in 1 .. Len(MeteorSprites)}]

NoDraw == CHOOSE d \in Draws : TRUE

\* NewMeteor draws only in a tick that spawns.
TickDraws == IF IsReady(TimerUpdate(meteorSpawnTimer)) THEN Draws ELSE {NoDraw}

\* The keys the host may report as held in the next tick.
KeySets ==
  {keys \in SUBSET Keys :
     /\ "Space" \in keys => Len(bullets) < MaxBullets
     /\ ("A" \in keys /\ "D" \notin keys) => player.rotation - 1 \in Rotations
     /\ ("D" \in keys /\ "A" \notin keys) => player.rotation + 1 \in Rotations}

\* One tick: the host calls Game.Update.
Update(keys, draw) ==
  /\ ~panicked
  /\ UNCHANGED units
  /\ \E r \in {GameUpdate(Game, keys, draw, spawned + 1, fired + 1)} :
       LET reset == r.resets > 0
       IN
         /\ player' = r.g.player
         /\ score' = r.g.score
         /\ meteorSpawnTimer' = r.g.meteorSpawnTimer
         /\ meteors' = r.g.meteors
         /\ bullets' = r.g.bullets
         /\ panicked' = r.panicked
         /\ ticks' = ticks + 1
         /\ spawned' = IF reset THEN 0 ELSE spawned + (IF r.spawn THEN 1 ELSE 0)
         /\ fired' = IF reset THEN 0 ELSE fired + r.added
         /\ playerTicks' = IF reset THEN 0 ELSE playerTicks + 1
         /\ shots' = IF reset THEN 0 ELSE shots + r.added
         /\ shotAt' = IF reset THEN 0
                      ELSE IF r.added > 0 THEN playerTicks + 1 ELSE shotAt
         /\ heldAll' = IF reset THEN TRUE ELSE heldAll /\ "Space" \in keys
         /\ idle' = (idle /\ keys = {})
         /\ last' = [keys |-> keys, added |-> r.added, spawn |-> r.spawn,
                     preM |-> r.preM, preB |-> r.preB, hits |-> r.hits,
                     postM |-> r.postM, postB |-> r.postB, postP |-> r.postP,
                     resets |-> r.resets, score0 |-> score,
                     timer0 |-> meteorSpawnTimer,
                     nM0 |-> Len(meteors), nB0 |-> Len(bullets),
                     age |-> playerTicks + 1, shots |-> shots + r.added,
                     shotAt0 |-> shotAt,
                     ready |-> IsReady(TimerUpdate(player.shootCooldown)),
                     heldAll |-> heldAll /\ "Space" \in keys]

\* The game under the keys of KeySets.
Next ==
  /\ ticks < MaxTicks
  /\ \E keys \in KeySets : \E draw \in TickDraws : Update(keys, draw)

Spec == Init /\ [][Next]_vars

\* The game with no key ever held.
NextIdle ==
  /\ ticks < MaxIdleTicks
  /\ \E draw \in TickDraws : Update({}, draw)

SpecIdle == Init /\ [][NextIdle]_vars

\* ---------------------------------------------------------- placed games
\* A Game value holding meteors NewMeteor can make, moved some ticks, and
\* bullets a new player can fire, moved some ticks, in any order and number
\* up to the bounds: the collections a test of Update places.
RECURSIVE MeteorAfter(_, _)
MeteorAfter(m, n) == IF n = 0 THEN m ELSE MeteorAfter(MeteorUpdate(m), n - 1)

RECURSIVE BulletAfter(_, _)
BulletAfter(b, n) == IF n = 0 THEN b ELSE BulletAfter(BulletUpdate(b), n - 1)

\* A bullet as a new player that has turned to rot fires it.
FiredAt(rot) ==
  PlayerUpdate([NewPlayer EXCEPT !.rotation = rot,
                                 !.shootCooldown.currentTicks = CooldownTicks],
               {"Space"}, 0).added[1]

PlacedMeteors ==
  { MeteorAfter(NewMeteor(0, 1, 10, 1, MeteorSprites[2]), 1),  \* from below, tall
    MeteorAfter(NewMeteor(0, 3, 20, 1, MeteorSprites[1]), 4),  \* from above
    MeteorAfter(NewMeteor(0, 0, 10, 1, MeteorSprites[1]), 1) } \* from the right

PlacedBullets ==
  { BulletAfter(FiredAt(2), 1), BulletAfter(FiredAt(2), 2), FiredAt(0) }

SeqsUpTo(S, n) == UNION {[1 .. k -> S] : k \in 0 .. n}

\* The elements of q, each with its index as its identity.
Numbered(q) == [k \in 1 .. Len(q) |-> [q[k] EXCEPT !.id = k]]

InitPlaced ==
  /\ player = NewPlayer
  /\ score = 0
  /\ meteorSpawnTimer = NewTimer(MeteorSpawnMs)
  /\ \E q \in SeqsUpTo(PlacedMeteors, MaxPlacedMeteors) : meteors = Numbered(q)
  /\ \E q \in SeqsUpTo(PlacedBullets, MaxPlacedBullets) : bullets = Numbered(q)
  /\ InitGhost(Len(meteors), Len(bullets))
  /\ UnitsIdle

NextPlaced ==
  /\ ticks < MaxPlacedTicks
  /\ \E keys \in KeySets : \E draw \in TickDraws : Update(keys, draw)

SpecPlaced == InitPlaced /\ [][NextPlaced]_vars

\* ------------------------------------------------------- a Timer by itself
\* The game's variables, which the units' specifications leave alone.
game == << player, score, meteorSpawnTimer, meteors, bullets, panicked, ticks,
           spawned, fired, playerTicks, shots, shotAt, heldAll, idle, last >>

\* NewTimer on one of the durations, in milliseconds: targets 0 to 4 ticks,
\* and one that the integer division cuts down to 0.
InitTimer ==
  /\ MainGame
  /\ rects = FreshRects(NoRect, NoRect)
  /\ turning = FreshTurning
  /\ \E ms \in TimerDurations : soloTimer = FreshTimer(ms)

\* t.Update()
TimerUpdateCall ==
  /\ soloTimer.ops < MaxTimerOps
  /\ soloTimer' = [soloTimer EXCEPT !.t = TimerUpdate(soloTimer.t),
                                    !.calls = soloTimer.calls + 1,
                                    !.ops = soloTimer.ops + 1]
  /\ UNCHANGED << game, rects, turning >>

\* t.Reset()
TimerResetCall ==
  /\ soloTimer.ops < MaxTimerOps
  /\ soloTimer' = [soloTimer EXCEPT !.t = TimerReset(soloTimer.t),
                                    !.calls = 0,
                                    !.resets = soloTimer.resets + 1,
                                    !.ops = soloTimer.ops + 1]
  /\ UNCHANGED << game, rects, turning >>

NextTimer == TimerUpdateCall \/ TimerResetCall

SpecTimer == InitTimer /\ [][NextTimer]_vars

\* ----------------------------------------------------- Rects by themselves
\* Rect values over the coordinates and sizes below: apart, overlapping,
\* sharing an edge or a corner, one pixel apart, empty.
Rects == [X : RectCoords, Y : RectCoords, Width : RectSizes, Height : RectSizes]

InitRects ==
  /\ MainGame
  /\ soloTimer = FreshTimer(0)
  /\ turning = FreshTurning
  /\ \E a \in Rects : \E b \in Rects : rects = FreshRects(a, b)

\* a.Intersects(b) and b.Intersects(a)
AskIntersects ==
  /\ ~rects.asked
  /\ rects' = [rects EXCEPT !.asked = TRUE,
                            !.ab = Intersects(rects.a, rects.b),
                            !.ba = Intersects(rects.b, rects.a)]
  /\ UNCHANGED << game, soloTimer, turning >>

NextRects == AskIntersects

SpecRects == InitRects /\ [][NextRects]_vars

\* -------------------------------------------------- a rotation by itself
\* p.rotation is a float64, and p.rotation -= speed and p.rotation += speed
\* round their results to the nearest float64 (ties to the even mantissa).
\* Here a float keeps FloatBits bits of mantissa instead of 53, and a number
\* is a whole multiple of the unit 2^-3.
\*
\* The spacing of the floats around the magnitude a.
RECURSIVE Spacing(_)
Spacing(a) == IF a < 2 ^ FloatBits THEN 1 ELSE 2 * Spacing(a \div 2)

\* The float nearest to x.
RoundFloat(x) ==
  LET a == Abs(x)
      q == Spacing(a)
      lo == (a \div q) * q
      rem == a - lo
      up == \/ 2 * rem > q
            \/ 2 * rem = q /\ (lo \div q) % 2 = 1
      r == IF up THEN lo + q ELSE lo
  IN  IF x < 0 THEN -r ELSE r

\* Lines 318-325 of Player.Update: the rotation after the turn keys.
Turn(rot, keys) ==
  LET rotA == IF "A" \in keys THEN RoundFloat(rot - TurnSpeed) ELSE rot
  IN  IF "D" \in keys THEN RoundFloat(rotA + TurnSpeed) ELSE rotA

InitTurn ==
  /\ MainGame
  /\ soloTimer = FreshTimer(0)
  /\ rects = FreshRects(NoRect, NoRect)
  /\ turning = FreshTurning

\* One tick of a player under the turn keys held.
TurnTick ==
  /\ turning.ticks < MaxTurnTicks
  /\ \E keys \in SUBSET {"A", "D"} :
       turning' = [rotation |-> Turn(turning.rotation, keys),
                   before |-> turning.rotation,
                   keys |-> keys,
                   ticks |-> turning.ticks + 1]
  /\ UNCHANGED << game, soloTimer, rects >>

NextTurn == TurnTick

SpecTurn == InitTurn /\ [][NextTurn]_vars

\* ---------------------------------------------------------------- claims
Ids(q) == {q[k].id : k \in 1 .. Len(q)}

\* The call of Update that led to this state returned.
Returned == ticks > 0 /\ ~panicked

\* Some bullet of bs intersects the meteor m; some meteor of ms the bullet b.
HitsSome(m, bs) ==
  \E n \in 1 .. Len(bs) : Intersects(MeteorCollider(m), BulletCollider(bs[n]))

HitBySome(b, ms) ==
  \E k \in 1 .. Len(ms) : Intersects(MeteorCollider(ms[k]), BulletCollider(b))

\* C1: in a tick's meteor-bullet step a meteor is removed only if its own
\* collider intersected a bullet's in that tick, a bullet only if its own
\* collider intersected a meteor's, and the two elements removed for a
\* detected pair are the two members of that pair.
C1_OnlyIntersectingRemoved ==
  Returned =>
    /\ \A k \in 1 .. Len(last.preM) :
         last.preM[k].id \notin Ids(last.postM) => HitsSome(last.preM[k], last.preB)
    /\ \A n \in 1 .. Len(last.preB) :
         last.preB[n].id \notin Ids(last.postB) => HitBySome(last.preB[n], last.preM)
    /\ \A h \in 1 .. Len(last.hits) :
         last.hits[h].rm = last.hits[h].m /\ last.hits[h].rb = last.hits[h].b

\* C2: from every reachable state and under every combination of held keys
\* Game.Update runs to completion: no slice expression of the collision loop
\* panics.
C2_UpdateNeverPanics == ~panicked

\* C3: when Game.Update returns without a reset, no meteor left in the meteor
\* collection intersects a bullet left in the bullet collection.
C3_NoIntersectingPairLeft ==
  (Returned /\ last.resets = 0) =>
    \A k \in 1 .. Len(meteors) : ~HitsSome(meteors[k], bullets)

\* C4: within one tick's collision step no meteor and no bullet is matched in
\* more than one intersection: each is removed on its first collision only.
C4_FirstCollisionOnly ==
  Returned =>
    \A a, b \in 1 .. Len(last.hits) :
      a # b => /\ last.hits[a].m # last.hits[b].m
               /\ last.hits[a].b # last.hits[b].b

\* C5: in a tick that completes without a reset the score grows by the number
\* of meteors the collision step removed, which is the number of bullets it
\* removed; so whenever Update has returned, score + live meteors = meteors
\* spawned since the last reset, score + live bullets = bullets fired since
\* the last reset, and score >= 0.
C5_ScoreCountsRemovals ==
  ~panicked =>
    /\ score >= 0
    /\ score + Len(meteors) = spawned
    /\ score + Len(bullets) = fired
    /\ (ticks > 0 /\ last.resets = 0) =>
         /\ score - last.score0 = Len(last.preM) - Len(last.postM)
         /\ score - last.score0 = Len(last.preB) - Len(last.postB)

\* A tick without a reset whose collision step removed a pair.
C5_Witness ==
  /\ Returned
  /\ last.resets = 0
  /\ score > last.score0
  /\ Len(last.postM) < Len(last.preM)

\* The player's start: the screen's centre less half the sprite.
StartPosition ==
  [X |-> ScreenWidth \div 2 - PlayerSprite.Dx \div 2,
   Y |-> ScreenHeight \div 2 - PlayerSprite.Dy \div 2]

\* After the meteor-bullet step of the latest tick, a meteor left in the
\* collection intersected the player.
PlayerHit ==
  \E k \in 1 .. Len(last.postM) :
    Intersects(MeteorCollider(last.postM[k]), PlayerCollider(last.postP))

\* C6: if after the meteor-bullet step a meteor still in the collection
\* intersects the player, Update returns a freshly reset world: score 0, no
\* meteors, no bullets (a bullet of that tick included), the player at the
\* start position with rotation 0 and its cooldown at 0; if none does, Reset
\* is not called in that tick.
C6_ResetOnPlayerHit ==
  Returned =>
    /\ PlayerHit <=> last.resets > 0
    /\ PlayerHit =>
         /\ score = 0
         /\ meteors = << >>
         /\ bullets = << >>
         /\ player.position = StartPosition
         /\ player.rotation = 0
         /\ player.shootCooldown.currentTicks = 0

\* A meteor hit a turned player in a tick in which it fired.
C6_Witness ==
  /\ Returned
  /\ PlayerHit
  /\ last.added = 1
  /\ last.postP.rotation # 0
  /\ last.postB # << >>

\* C7: after any sequence of Update calls, Reset yields score 0, no meteors,
\* no bullets and a player at the start position with rotation 0, and a
\* second Reset changes nothing.
C7_ResetYieldsFreshWorld ==
  LET r == Reset(Game)
  IN  /\ r.score = 0
      /\ r.meteors = << >>
      /\ r.bullets = << >>
      /\ r.player.position = StartPosition
      /\ r.player.rotation = 0
      /\ Reset(r) = r

\* A world with a meteor, a bullet, a turned player and a running cooldown:
\* Reset has all of it to clear.
C7_Witness ==
  /\ ~panicked
  /\ meteors # << >>
  /\ bullets # << >>
  /\ player.rotation # 0
  /\ player.shootCooldown.currentTicks # 0

\* C8: Reset leaves the spawn timer's elapsed and target ticks as they are;
\* so a meteor spawns in exactly every SpawnTicks-th tick since the start of
\* the game, whatever resets happen, and the timer's elapsed ticks are the
\* ticks since the latest such tick.
C8_ResetKeepsSpawnTimer ==
  /\ Reset(Game).meteorSpawnTimer = meteorSpawnTimer
  /\ ticks > 0 =>
       /\ last.spawn <=> ticks % SpawnTicks = 0
       /\ meteorSpawnTimer =
            [currentTicks |-> ticks % SpawnTicks, targetTicks |-> SpawnTicks]
       /\ last.resets > 0 =>
            meteorSpawnTimer.currentTicks =
              (IF last.spawn THEN 0 ELSE last.timer0.currentTicks + 1)

\* The second spawn, on time, after a reset: with no bullets a meteor leaves
\* the collection only by Reset, and the first meteor is gone.
C8_Witness ==
  /\ ticks = 2 * SpawnTicks
  /\ last.spawn
  /\ Len(meteors) = 1

\* C9: from a fresh world with no key held, no meteor exists after fewer than
\* SpawnTicks calls of Update; after exactly SpawnTicks calls exactly one
\* exists and the spawn timer is reset (elapsed 0, not ready); and under any
\* keys a tick adds at most one meteor.
C9_OneMeteorAfterSpawnInterval ==
  /\ (idle /\ ticks < SpawnTicks) => meteors = << >>
  /\ (idle /\ ticks = SpawnTicks) =>
       /\ Len(meteors) = 1
       /\ meteorSpawnTimer.currentTicks = 0
       /\ ~IsReady(meteorSpawnTimer)
  /\ meteorSpawnTimer.targetTicks = (MeteorSpawnMs * TPS) \div 1000
  /\ Len(last.preM) <= last.nM0 + 1

\* The SpawnTicks-th idle tick has spawned the first meteor.
C9_Witness ==
  /\ idle
  /\ ticks = SpawnTicks
  /\ last.spawn
  /\ Len(meteors) = 1

\* C10: a tick creates at most one bullet, and only if fire is held and the
\* cooldown, once updated, is ready; two creations by one player are at least
\* CooldownTicks Player.Update calls apart; and with fire held in every
\* Player.Update of a player its k-th bullet is created in its
\* (k * CooldownTicks)-th Player.Update, and in no other.
C10_OneBulletPerCooldown ==
  ticks > 0 =>
    /\ last.added <= 1
    /\ last.added = 1 => ("Space" \in last.keys /\ last.ready)
    /\ (last.added = 1 /\ last.shotAt0 > 0) =>
         last.age - last.shotAt0 >= CooldownTicks
    /\ last.heldAll =>
         /\ last.added = 1 <=> last.age % CooldownTicks = 0
         /\ last.shots = last.age \div CooldownTicks

\* Fire held since the player was created: its second bullet.
C10_Witness ==
  /\ last.heldAll
  /\ last.added = 1
  /\ last.shots = 2
  /\ last.age = 2 * CooldownTicks

\* C11: a timer of NewTimer is not ready until Update has been called
\* targetTicks times since its creation or its latest Reset, and is ready
\* from then on under any further Update, until Reset.
C11_ReadyAfterTargetUpdates ==
  /\ soloTimer.t.targetTicks >= 0
  /\ IsReady(soloTimer.t) <=> soloTimer.calls >= soloTimer.t.targetTicks

\* A timer that has been reset and then updated past its target.
C11_Witness ==
  /\ soloTimer.t.targetTicks > 1
  /\ soloTimer.resets > 0
  /\ soloTimer.calls > soloTimer.t.targetTicks
  /\ IsReady(soloTimer.t)

\* The timer's elapsed ticks are within 0 and its target.
TimerInRange(t) == 0 <= t.currentTicks /\ t.currentTicks <= t.targetTicks

\* Update adds one tick below the target and nothing at it; Reset sets the
\* elapsed ticks to 0; neither changes the target.
TimerStepsRight(t) ==
  /\ TimerUpdate(t).targetTicks = t.targetTicks
  /\ t.currentTicks < t.targetTicks =>
       TimerUpdate(t).currentTicks = t.currentTicks + 1
  /\ t.currentTicks >= t.targetTicks =>
       TimerUpdate(t).currentTicks = t.currentTicks
  /\ TimerReset(t).currentTicks = 0
  /\ TimerReset(t).targetTicks = t.targetTicks

\* C12: in every reachable state the spawn timer and the player's cooldown
\* have 0 <= currentTicks <= targetTicks, and on them Update and Reset step
\* as the claim says.
C12_TimersInRange ==
  /\ TimerInRange(meteorSpawnTimer) /\ TimerStepsRight(meteorSpawnTimer)
  /\ TimerInRange(player.shootCooldown) /\ TimerStepsRight(player.shootCooldown)
  /\ meteorSpawnTimer.targetTicks = SpawnTicks
  /\ player.shootCooldown.targetTicks = CooldownTicks

\* The cooldown was at its target before the latest tick, which did not
\* fire, and is at it after; the spawn timer is on its way.
C12_Witness ==
  /\ Returned
  /\ last.resets = 0
  /\ last.added = 0
  /\ last.shotAt0 = 0
  /\ last.age > CooldownTicks
  /\ player.shootCooldown.currentTicks = player.shootCooldown.targetTicks
  /\ meteorSpawnTimer.currentTicks > 0
  /\ meteorSpawnTimer.currentTicks < meteorSpawnTimer.targetTicks

\* The screen's centre: the player's centre and the meteors' target.
Centre == [X |-> ScreenWidth \div 2, Y |-> ScreenHeight \div 2]

\* The meteors left by the latest meteor-bullet step that intersect the player.
PlayerHitters ==
  {k \in 1 .. Len(last.postM) :
     Intersects(MeteorCollider(last.postM[k]), PlayerCollider(last.postP))}

\* C13: Update runs player update, spawn, meteor moves, bullet moves,
\* meteor-bullet collisions, meteor-player collisions, in this order: a
\* bullet fired in a tick is in that tick's collision step one move away from
\* where it was created, a meteor spawned in a tick is in it one move away
\* from where it spawned, and Reset is called once for every meteor that the
\* meteor-bullet step left and that intersects the player, and for no other.
C13_StepsInOrder ==
  ticks > 0 =>
    /\ Len(last.preB) = last.nB0 + last.added
    /\ last.added = 1 =>
         LET b == last.preB[Len(last.preB)]
             reach == bulletSpawnOffset + BulletSpeedPerSecond \div TPS
         IN  /\ b.rotation = last.postP.rotation
             /\ b.position.X + BulletSprite.Dx \div 2
                  = Centre.X + Sin(b.rotation) * reach
             /\ b.position.Y + BulletSprite.Dy \div 2
                  = Centre.Y - Cos(b.rotation) * reach
    /\ Len(last.preM) = last.nM0 + (IF last.spawn THEN 1 ELSE 0)
    /\ last.spawn =>
         LET m == last.preM[Len(last.preM)]
         IN  /\ Abs(m.Position.X - Centre.X) + Abs(m.Position.Y - Centre.Y)
                  = ScreenWidth \div 2 - (Abs(m.Movement.X) + Abs(m.Movement.Y))
             /\ m.Rotation = m.rotationSpeed
    /\ ~panicked =>
         /\ Ids(last.postM) \subseteq Ids(last.preM)
         /\ Ids(last.postB) \subseteq Ids(last.preB)
         /\ last.resets = Cardinality(PlayerHitters)

\* A bullet fired in the latest tick hit, in that tick, a meteor that was over
\* the player: the meteor-player step did not see it, and there was no reset.
C13_Witness ==
  /\ Returned
  /\ last.added = 1
  /\ last.resets = 0
  /\ \E h \in 1 .. Len(last.hits) :
       last.hits[h].rb = last.preB[Len(last.preB)].id
  /\ \E k \in 1 .. Len(last.preM) :
       Intersects(MeteorCollider(last.preM[k]), PlayerCollider(last.postP))

\* The bullets the latest meteor-bullet step removed.
RemovedBullets == {last.hits[h].rb : h \in 1 .. Len(last.hits)} \ {0}

\* C14: a bullet leaves the collection only by a removal of the meteor-bullet
\* step or by Reset: over a tick that returns without a reset every bullet
\* stays unless that step removed it, and the count changes by the bullets
\* fired less the bullets removed, whatever the bullets' ages and positions.
C14_BulletsNeverDespawn ==
  [][ (~panicked' /\ last'.resets = 0) =>
        /\ \A k \in 1 .. Len(bullets) :
             \/ bullets[k].id \in Ids(bullets')
             \/ bullets[k].id \in RemovedBullets'
        /\ Len(bullets') = Len(bullets) + last'.added - Cardinality(RemovedBullets')
        /\ last'.hits = << >> => Len(bullets') >= Len(bullets) ]_vars

\* Two bullets far off the screen are still in the collection.
C14_Witness ==
  /\ Returned
  /\ Len(bullets) >= 2
  /\ \A k \in 1 .. Len(bullets) :
       \/ bullets[k].position.Y + bullets[k].sprite.Dy < 0 - ScreenHeight
       \/ bullets[k].position.Y > 2 * ScreenHeight
       \/ bullets[k].position.X > 2 * ScreenWidth

\* C15: Intersects is symmetric: for all rectangles a and b of non-negative
\* width and height, a.Intersects(b) = b.Intersects(a).
C15_IntersectsSymmetric ==
  (rects.asked /\ rects.a.Width >= 0 /\ rects.a.Height >= 0
               /\ rects.b.Width >= 0 /\ rects.b.Height >= 0) =>
    rects.ab = rects.ba

\* Two different rectangles that share an edge only, and both calls say yes.
C15_Witness ==
  /\ rects.asked
  /\ rects.a.X + rects.a.Width = rects.b.X
  /\ rects.a.Width > 0
  /\ rects.b.Width > 0
  /\ rects.ab
  /\ rects.ba

\* The rectangle of NewRect(x, y, width, height).
RectOf(x, y, w, h) == [X |-> x, Y |-> y, Width |-> w, Height |-> h]

\* C16: Intersects is true exactly when x <= other.maxX, other.x <= maxX,
\* y <= other.maxY and other.y <= maxY: boxes that share an edge or a corner
\* intersect, as (0,0,10,10) and (10,0,10,10) do; boxes with a gap on either
\* axis do not, as (0,0,10,10) and (11,0,10,10) do not.
C16_IntersectsClosed ==
  rects.asked =>
    LET a == rects.a
        b == rects.b
    IN  /\ rects.ab <=> /\ a.X <= b.X + b.Width
                        /\ b.X <= a.X + a.Width
                        /\ a.Y <= b.Y + b.Height
                        /\ b.Y <= a.Y + a.Height
        /\ (a = RectOf(0, 0, 10, 10) /\ b = RectOf(10, 0, 10, 10)) => rects.ab
        /\ (a = RectOf(0, 0, 10, 10) /\ b = RectOf(10, 10, 10, 10)) => rects.ab
        /\ (a = RectOf(0, 0, 10, 10) /\ b = RectOf(11, 0, 10, 10)) => ~rects.ab
        /\ ( \/ b.X > a.X + a.Width
             \/ a.X > b.X + b.Width
             \/ b.Y > a.Y + a.Height
             \/ a.Y > b.Y + b.Height ) => ~rects.ab

\* The claim's two boxes that share an edge: Intersects has said yes.
C16_Witness ==
  /\ rects.asked
  /\ rects.a = RectOf(0, 0, 10, 10)
  /\ rects.b = RectOf(10, 0, 10, 10)
  /\ rects.ab

\* The rotation after the turn keys of a tick, in quarter turns.
Turned(rot, keys) ==
  rot - (IF "A" \in keys THEN 1 ELSE 0) + (IF "D" \in keys THEN 1 ELSE 0)

\* The bullets of q keep the rotation they have in p.
SameHeadings(p, q) ==
  \A k \in 1 .. Len(p) : \A n \in 1 .. Len(q) :
    q[n].id = p[k].id => q[n].rotation = p[k].rotation

\* The meteors of q keep the movement and the rotation speed they have in p.
SameCourses(p, q) ==
  \A k \in 1 .. Len(p) : \A n \in 1 .. Len(q) :
    q[n].id = p[k].id => /\ q[n].Movement = p[k].Movement
                         /\ q[n].rotationSpeed = p[k].rotationSpeed

\* C17: a bullet's rotation is the player's rotation after the turn keys of
\* the tick that fires it, and no step of a later tick changes it; no tick
\* changes a meteor's movement vector or rotation speed.
C17_HeadingFixedAtCreation ==
  [][ /\ SameHeadings(bullets, last'.preB)
      /\ SameHeadings(bullets, bullets')
      /\ last'.added = 1 =>
           last'.preB[Len(last'.preB)].rotation = Turned(player.rotation, last'.keys)
      /\ SameCourses(meteors, last'.preM)
      /\ SameCourses(meteors, meteors') ]_vars

\* A bullet fired in a tick that turned the player, beside an older bullet on
\* another heading.
C17_Witness ==
  /\ Returned
  /\ last.added = 1
  /\ "D" \in last.keys
  /\ "A" \notin last.keys
  /\ Len(bullets) = 2
  /\ bullets[1].rotation # bullets[2].rotation
  /\ bullets[2].rotation = player.rotation

\* C18: whenever Update returns, no meteor of the collection intersects the
\* player: none that the meteor-bullet step left did, or Reset emptied the
\* collection, be it called once or once for each of several meteors.
C18_NoMeteorOnPlayer ==
  Returned =>
    /\ \A k \in 1 .. Len(meteors) :
         ~Intersects(MeteorCollider(meteors[k]), PlayerCollider(player))
    /\ last.resets > 0 => Game = Reset([Game EXCEPT !.meteors = last.postM,
                                                    !.bullets = last.postB,
                                                    !.player = last.postP])

\* Two meteors were on the player in the latest tick: Reset ran twice.
C18_Witness ==
  /\ Returned
  /\ last.resets = 2
  /\ Len(last.postM) = 2
  /\ meteors = << >>

\* C19: in every reachable state the player is at the start position, no
\* Player.Update moves it, its collider is the same box in every tick and
\* across resets, and a tick in which rotate-left and rotate-right are both
\* held leaves the rotation as it was.
C19_PlayerStaysPut ==
  /\ player.position = StartPosition
  /\ PlayerCollider(player) = Collider(StartPosition, PlayerSprite)
  /\ \A keys \in SUBSET Keys :
       PlayerUpdate(player, keys, 0).player.position = player.position
  /\ ({"A", "D"} \subseteq turning.keys) => turning.rotation = turning.before

\* The meteors the latest meteor-bullet step removed.
RemovedMeteors == {last.hits[h].rm : h \in 1 .. Len(last.hits)} \ {0}

\* No element of q is in it twice.
EachOnce(q) == \A k, n \in 1 .. Len(q) : q[k].id = q[n].id => k = n

\* C20: whenever Update has returned, each of the two collections holds each
\* live entity once; the meteor-bullet step leaves in them exactly the
\* entities it did not remove, each removal took one meteor and one bullet
\* and incremented the score, and only a reset drops the others.
C20_EachEntityOnce ==
  Returned =>
    /\ EachOnce(meteors)
    /\ EachOnce(bullets)
    /\ EachOnce(last.postM)
    /\ EachOnce(last.postB)
    /\ Ids(last.postM) = Ids(last.preM) \ RemovedMeteors
    /\ Ids(last.postB) = Ids(last.preB) \ RemovedBullets
    /\ Cardinality(RemovedMeteors) = Len(last.hits)
    /\ Cardinality(RemovedBullets) = Len(last.hits)
    /\ last.resets = 0 =>
         /\ meteors = last.postM
         /\ bullets = last.postB
         /\ score = last.score0 + Len(last.hits)

\* A tick whose collision step removed two pairs from the middle of the
\* collections and left a meteor and a bullet behind.
C20_Witness ==
  /\ Returned
  /\ Len(last.hits) = 2
  /\ Len(meteors) >= 1
  /\ Len(bullets) >= 1
  /\ last.preM[Len(last.preM)].id \in Ids(meteors)
  /\ last.preB[Len(last.preB)].id \in Ids(bullets)

====
